---------------------------- MODULE Spec2Model ----------------------------
(***************************************************************************)
(* A model of app.py: the dose-response curve generator (module level,     *)
(* lines 25-29), the radiation_sources table (lines 11-20), the two        *)
(* calculator sliders (lines 100-102) and the update_dose callback         *)
(* (lines 231-237).                                                        *)
(*                                                                         *)
(* Numbers.  The program computes in binary64.  The model computes in      *)
(* exact scaled integers:                                                  *)
(*   - a dose or a risk of the curves is the integer  value * Den, with    *)
(*     Den = (NumSamples - 1) * Scale, so that every sample of             *)
(*     np.linspace(0, 100, 100) and every product with the literals 0.01,  *)
(*     0.005 and 0.05 is an integer.  The binary64 rounding of the curve   *)
(*     values (relative error below 2^-52) is not represented.             *)
(*   - a dose of the calculator is the integer  value * Micro  (millionths *)
(*     of a mSv).  The rounding of the binary64 sum is represented as a    *)
(*     nondeterministic error of at most MaxUlps millionths, which is far  *)
(*     more than binary64 can produce; a zero result is exact.             *)
(***************************************************************************)
EXTENDS Integers, Sequences, FiniteSets, TLC

(* ------------------------------ bounds -------------------------------- *)

\* slider changes followed per page load
MaxEvents == 3
\* executions of the module (process starts under the debug reloader)
MaxLoads == 2
\* the rounding error of the calculator's sum, in millionths of a mSv
MaxUlps == 1

(* ------------------------------- state -------------------------------- *)

VARIABLES
    radiation_sources,  \* the table of lines 11-20
    dose_values,        \* line 25
    lnt_risk,           \* line 26
    threshold_risk,     \* line 27
    hormesis_risk,      \* lines 28-29
    flights,            \* 'flight-slider'.value
    xrays,              \* 'xray-slider'.value
    output,             \* 'total-dose-output'.children
    pending,            \* the page's initial callback has not run yet
    call,               \* the arguments of the last update_dose call
    nchanges,           \* slider changes since the page was loaded
    ncalls,             \* update_dose calls since the page was loaded
    nupdates,           \* display updates since the page was loaded
    loads,              \* executions of the module
    first,              \* the arrays of the first execution
    returned            \* the texts update_dose returned for the probe pairs

globals == <<radiation_sources, dose_values, lnt_risk, threshold_risk,
             hormesis_risk>>
page == <<flights, xrays, output, pending, call, nchanges, ncalls, nupdates>>
vars == <<globals, page, loads, first, returned>>

(* --------------------------- number scales ---------------------------- *)

\* thousandths: the resolution of the literals 0.01, 0.005, 0.05
Scale == 1000
\* millionths of a mSv: the resolution of the calculator's doses
Micro == 1000000

\* np.linspace(0, 100, 100)
DoseStart == 0
DoseStop == 100
NumSamples == 100

Den == (NumSamples - 1) * Scale

\* the integer n, and the literal k/1000, as curve values
Whole(n) == n * Den
Lit(k) == k * (Den \div Scale)
\* the product of curve value a and the literal k/1000
Mul(a, k) == (a * k) \div Scale

(* ------------------------- radiation_sources -------------------------- *)

SourceNames ==
    { "Background Radiation (Annual Avg)", "Chest X-ray", "Dental X-ray",
      "Mammogram", "CT Scan (Abdomen)", "Flight (NYC to LA)",
      "Smoking (1 pack/day, Annual)", "Fukushima Evacuation Zone (Annual)" }

\* doses in millionths of a mSv
RadiationSources ==
    [n \in SourceNames |->
        CASE n = "Background Radiation (Annual Avg)" -> 3000000
          [] n = "Chest X-ray" -> 100000
          [] n = "Dental X-ray" -> 5000
          [] n = "Mammogram" -> 400000
          [] n = "CT Scan (Abdomen)" -> 8000000
          [] n = "Flight (NYC to LA)" -> 40000
          [] n = "Smoking (1 pack/day, Annual)" -> 70000000
          [] n = "Fukushima Evacuation Zone (Annual)" -> 12000000]

(* --------------------------- curve generator -------------------------- *)

\* np.linspace with endpoint=False: the step divides by num, and the last
\* sample is not set to stop
linspace_no_endpoint(start, stop, num) ==
    LET step == (Whole(stop - start)) \div num
    IN  [i \in 1..num |-> Whole(start) + (i - 1) * step]

\* np.linspace(start, stop, num): step = (stop - start) / (num - 1),
\* y[i] = start + i * step, and the last sample is set to stop
linspace(start, stop, num) ==
    LET div == num - 1
        step == (Whole(stop - start)) \div div
    IN  [i \in 1..num |-> IF i = num THEN Whole(stop)
                          ELSE Whole(start) + (i - 1) * step]

\* the literals of lines 26-29, in thousandths
LntSlope == 10
RiskSlope == 10
HormesisSlope == -5
HormesisOffset == 50
Cutoff == 10

\* dose_values * 0.1
lnt_tenth(doses) == [i \in DOMAIN doses |-> Mul(doses[i], 100)]

\* dose_values * 0.01
lnt(doses) == [i \in DOMAIN doses |-> Mul(doses[i], LntSlope)]

\* dose_values < 10, dose_values >= 10
below_cutoff(x) == x < Whole(Cutoff)
from_cutoff(x) == x >= Whole(Cutoff)

\* the constant 0 of threshold_risk's funclist
zero(x) == 0

\* lambda x: x * 0.01, the subtraction forgotten
high_no_shift(x) == Mul(x, RiskSlope)

\* lambda x: (x - 10) * 0.01
high(x) == Mul(x - Whole(Cutoff), RiskSlope)

\* lambda x: (x - 10) * 0.005
hormesis_high_half(x) == Mul(x - Whole(Cutoff), 5)

\* lambda x: (x - 10) * 0.01 of hormesis_risk
hormesis_high(x) == Mul(x - Whole(Cutoff), RiskSlope)

\* lambda x: -0.005 * x + 0.05
hormesis_low(x) == Mul(x, HormesisSlope) + Lit(HormesisOffset)

\* the arrays dose_values < 10 and dose_values >= 10
below(doses) == [i \in DOMAIN doses |-> below_cutoff(doses[i])]
from(doses) == [i \in DOMAIN doses |-> from_cutoff(doses[i])]

\* np.piecewise(x, condlist, funclist): the output starts as zeros; for each
\* condition in turn, the elements it selects are set to the values of its
\* function (funclist[k][i] is the k-th function's value at x[i])
piecewise(x, condlist, funclist) ==
    LET y[k \in 0..Len(condlist)] ==
            IF k = 0 THEN [i \in DOMAIN x |-> 0]
            ELSE [i \in DOMAIN x |->
                     IF condlist[k][i] THEN funclist[k][i] ELSE y[k - 1][i]]
    IN  y[Len(condlist)]

threshold(doses) ==
    piecewise(doses, <<below(doses), from(doses)>>,
              << [i \in DOMAIN doses |-> zero(doses[i])],
                 [i \in DOMAIN doses |-> high(doses[i])] >>)

hormesis(doses) ==
    piecewise(doses, <<below(doses), from(doses)>>,
              << [i \in DOMAIN doses |-> hormesis_low(doses[i])],
                 [i \in DOMAIN doses |-> hormesis_high(doses[i])] >>)

(* ------------------------------ sliders ------------------------------- *)

\* dcc.Slider(0, 50, 1, value=5), dcc.Slider(0, 10, 1, value=1)
FlightSlider == [min |-> 0, max |-> 50, step |-> 1, value |-> 5]
XraySlider == [min |-> 0, max |-> 10, step |-> 1, value |-> 1]

\* a slider that lets the handle go one step past max
SliderValuesPastMax(s) ==
    { s.min + k * s.step : k \in 0..(((s.max - s.min) \div s.step) + 1) }

\* the values a slider's handle can take: min, min + step, ..., up to max
SliderValues(s) ==
    { s.min + k * s.step : k \in 0..((s.max - s.min) \div s.step) }

(* ----------------------------- update_dose ---------------------------- *)

\* the literals 0.04 and 0.1 of update_dose, in millionths of a mSv
FlightCoef == 40000
XrayCoef == 100000

\* (flights * 0.05) + (xrays * 0.1)
total_dose_wrong_coef(f, x) == (f * 50000) + (x * XrayCoef)

\* (flights * 0.04) + (xrays * 0.1), in exact arithmetic
total_dose(f, x) == (f * FlightCoef) + (x * XrayCoef)

\* the values the binary64 evaluation of an exact value v can yield
Float(v) == IF v = 0 THEN {0} ELSE (v - MaxUlps)..(v + MaxUlps)

Digit(n) == <<"0", "1", "2", "3", "4", "5", "6", "7", "8", "9">>[n + 1]

RECURSIVE Digits(_)
\* the decimal digits of n >= 0, most significant first
Digits(n) == IF n < 10 THEN <<Digit(n)>>
             ELSE Append(Digits(n \div 10), Digit(n % 10))

Abs(v) == IF v < 0 THEN 0 - v ELSE v

\* hundredths of v (millionths), the rest cut off
Truncate(v) == Abs(v) \div (Micro \div 100)

\* hundredths of v (millionths), rounded to nearest, a tie to even
RoundHalfEven(v) ==
    LET unit == Micro \div 100
        q == Abs(v) \div unit
        r == Abs(v) % unit
    IN  IF (2 * r > unit) \/ (2 * r = unit /\ q % 2 = 1) THEN q + 1 ELSE q

\* f"{v:.2f}" that cuts instead of rounding
Format2fTruncating(v) ==
    LET h == Truncate(v)
    IN  (IF v < 0 THEN <<"-">> ELSE <<>>)
        \o Digits(h \div 100) \o <<".">>
        \o <<Digit((h \div 10) % 10), Digit(h % 10)>>

\* f"{v:.2f}": sign, integer digits, point, two decimals
Format2f(v) ==
    LET h == RoundHalfEven(v)
    IN  (IF v < 0 THEN <<"-">> ELSE <<>>)
        \o Digits(h \div 100) \o <<".">>
        \o <<Digit((h \div 10) % 10), Digit(h % 10)>>

Prefix == "Your estimated annual radiation dose from selected activities: "
Suffix == " mSv"

\* the f-string of line 237
Sentence(amount) == <<Prefix>> \o amount \o <<Suffix>>

\* update_dose adding to a total kept across calls
update_dose_accumulating(f, x) ==
    { Sentence(Format2f(t + ncalls * FlightCoef)) : t \in Float(total_dose(f, x)) }

\* the texts update_dose(flights, xrays) can return
update_dose(f, x) == { Sentence(Format2f(t)) : t \in Float(total_dose(f, x)) }

\* the value of a component before any callback has set it
None == <<>>

(* --------------------------- initial state ---------------------------- *)

\* the pairs whose returned texts are recorded
ProbePairs == { <<0, 0>>, <<5, 1>>, <<50, 10>> }

\* the arrays of lines 25-29
Curves ==
    LET d == linspace(DoseStart, DoseStop, NumSamples)
    IN  [dose |-> d, lnt |-> lnt(d), threshold |-> threshold(d),
         hormesis |-> hormesis(d)]

\* the Input wiring with the X-ray slider left out: its initial value is used
CallbackInputsFlightOnly(f, x) == <<f, XraySlider.value>>

\* [Input("flight-slider", "value"), Input("xray-slider", "value")]: the
\* arguments of the callback, given the sliders' values f and x
CallbackInputs(f, x) == <<f, x>>

Init ==
    /\ radiation_sources = RadiationSources
    /\ dose_values = Curves.dose
    /\ lnt_risk = Curves.lnt
    /\ threshold_risk = Curves.threshold
    /\ hormesis_risk = Curves.hormesis
    /\ flights = FlightSlider.value
    /\ xrays = XraySlider.value
    /\ output = None
    /\ pending = TRUE
    /\ call = None
    /\ nchanges = 0
    /\ ncalls = 0
    /\ nupdates = 0
    /\ loads = 1
    /\ first = Curves
    /\ returned = [p \in ProbePairs |-> {}]

\* the module is executed again and the page loaded anew: the arrays are
\* regenerated, the sliders are at their initial values, and the initial
\* callback is due
Reload ==
    /\ loads < MaxLoads
    /\ loads' = loads + 1
    /\ radiation_sources' = RadiationSources
    /\ dose_values' = Curves.dose
    /\ lnt_risk' = Curves.lnt
    /\ threshold_risk' = Curves.threshold
    /\ hormesis_risk' = Curves.hormesis
    /\ flights' = FlightSlider.value
    /\ xrays' = XraySlider.value
    /\ output' = None
    /\ pending' = TRUE
    /\ call' = None
    /\ nchanges' = 0
    /\ ncalls' = 0
    /\ nupdates' = 0
    /\ UNCHANGED <<first, returned>>

\* the callback is run once on the wired inputs, the sliders being at f and x,
\* and its return value is displayed
Callback(f, x) ==
    LET in == CallbackInputs(f, x)
    IN  /\ call' = [flights |-> in[1], xrays |-> in[2]]
        /\ \E text \in update_dose(in[1], in[2]) :
              /\ output' = text
              /\ returned' =
                   IF in \in ProbePairs
                   THEN [returned EXCEPT ![in] = @ \cup {text}]
                   ELSE returned
        /\ ncalls' = ncalls + 1
        /\ nupdates' = nupdates + 1

\* the page is shown: the callback runs on the sliders' initial values
InitialCall ==
    /\ pending
    /\ pending' = FALSE
    /\ Callback(flights, xrays)
    /\ UNCHANGED <<globals, flights, xrays, nchanges, loads, first>>

\* the user moves the flight slider to another value, and the callback runs
SlideFlight ==
    /\ ~pending
    /\ nchanges < MaxEvents
    /\ \E v \in SliderValues(FlightSlider) \ {flights} :
          /\ flights' = v
          /\ Callback(v, xrays)
    /\ nchanges' = nchanges + 1
    /\ UNCHANGED <<globals, xrays, pending, loads, first>>

\* the user moves the X-ray slider to another value, and the callback runs
SlideXray ==
    /\ ~pending
    /\ nchanges < MaxEvents
    /\ \E v \in SliderValues(XraySlider) \ {xrays} :
          /\ xrays' = v
          /\ Callback(flights, v)
    /\ nchanges' = nchanges + 1
    /\ UNCHANGED <<globals, flights, pending, loads, first>>

Next == Reload \/ InitialCall \/ SlideFlight \/ SlideXray

Spec == Init /\ [][Next]_vars


(* ------------------------- reading the output ------------------------- *)

\* the amount inside the sentence: what stands between prefix and suffix
Amount(text) == SubSeq(text, 2, Len(text) - 1)

DigitValue(c) == CHOOSE n \in 0..9 : Digit(n) = c

IsDigit(c) == \E n \in 0..9 : Digit(n) = c

RECURSIVE ParseNat(_)
\* the number a sequence of decimal digits denotes
ParseNat(s) == IF s = <<>> THEN 0
               ELSE 10 * ParseNat(SubSeq(s, 1, Len(s) - 1))
                    + DigitValue(s[Len(s)])

\* digits, a point, exactly two digits
TwoDecimals(a) ==
    /\ Len(a) >= 4
    /\ a[Len(a) - 2] = "."
    /\ \A i \in (1..Len(a)) \ {Len(a) - 2} : IsDigit(a[i])

\* the hundredths an amount with two decimals denotes
Hundredths(a) ==
    100 * ParseNat(SubSeq(a, 1, Len(a) - 3))
    + ParseNat(SubSeq(a, Len(a) - 1, Len(a)))

\* the text for a dose of h hundredths of a mSv
TextOf(h) == Sentence(Format2f(h * (Micro \div 100)))

Samples == 1..Len(dose_values)

(* ------------------------------- claims ------------------------------- *)

\* C1: whatever pair (f, x) of slider values update_dose was called with, the
\* text it returned is the sentence around an amount with two decimals that
\* denotes exactly 4*f + 10*x hundredths of a mSv; (0,0) gives 0.00, (5,1)
\* gives 0.30 and (50,10) gives 3.00.
DoseReported ==
    call # None =>
        /\ Len(output) >= 3
        /\ output[1] = Prefix
        /\ output[Len(output)] = Suffix
        /\ TwoDecimals(Amount(output))
        /\ Hundredths(Amount(output)) = 4 * call.flights + 10 * call.xrays
        /\ (call.flights = 0 /\ call.xrays = 0
              => Amount(output) = <<"0", ".", "0", "0">>)
        /\ (call.flights = 5 /\ call.xrays = 1
              => Amount(output) = <<"0", ".", "3", "0">>)
        /\ (call.flights = 50 /\ call.xrays = 10
              => Amount(output) = <<"3", ".", "0", "0">>)

\* update_dose has been called with the largest pair and reported 3.00
DoseReportedWitness ==
    /\ call = [flights |-> 50, xrays |-> 10]
    /\ Amount(output) = <<"3", ".", "0", "0">>

InputsInRange ==
    /\ flights \in 0..50
    /\ xrays \in 0..10
    /\ call # None => call.flights \in 0..50 /\ call.xrays \in 0..10

\* update_dose has been called at the ends of the ranges
InputsInRangeWitness ==
    /\ call # None
    /\ call.flights = 50
    /\ call.xrays = 0

LntLinear ==
    /\ Len(lnt_risk) = Len(dose_values)
    /\ \A i \in Samples : 100 * lnt_risk[i] = dose_values[i]
    /\ \A i \in Samples \ {Len(dose_values)} : lnt_risk[i] <= lnt_risk[i + 1]
    /\ \E i \in Samples : dose_values[i] = Whole(0) /\ lnt_risk[i] = Whole(0)
    /\ \E i \in Samples : dose_values[i] = Whole(100) /\ lnt_risk[i] = Whole(1)

\* the last sample of the LNT curve is the point (100, 1.0)
LntLinearWitness ==
    /\ dose_values[NumSamples] = Whole(100)
    /\ lnt_risk[NumSamples] = Whole(1)
    /\ lnt_risk[2] > 0

\* C6: at every sample the Threshold risk is 0 when the dose is below 10 and
\* (dose - 10) * 0.01 otherwise; the curve is non-decreasing over the samples
\* above 10.
ThresholdShape ==
    /\ Len(threshold_risk) = Len(dose_values)
    /\ \A i \in Samples :
          /\ dose_values[i] < Whole(10) => threshold_risk[i] = 0
          /\ dose_values[i] >= Whole(10)
               => 100 * threshold_risk[i] = dose_values[i] - Whole(10)
    /\ \A i \in Samples \ {Len(dose_values)} :
          dose_values[i] > Whole(10) => threshold_risk[i] <= threshold_risk[i + 1]

\* there are samples on both sides of 10, the ones above with a positive risk
ThresholdShapeWitness ==
    /\ \E i \in Samples : dose_values[i] < Whole(10) /\ dose_values[i] > Whole(9)
                          /\ threshold_risk[i] = 0
    /\ \E i \in Samples : dose_values[i] > Whole(10) /\ threshold_risk[i] > 0

\* C7: at every sample below 10 the Hormesis risk is negative, and at every
\* sample above 10 it is positive.
HormesisBeneficialBelowCutoff ==
    \A i \in Samples :
        /\ dose_values[i] < Whole(10) => hormesis_risk[i] < 0
        /\ dose_values[i] > Whole(10) => hormesis_risk[i] > 0

\* C8: at every sample the Hormesis risk is -0.005 * dose + 0.05 when the dose
\* is below 10 and (dose - 10) * 0.01 otherwise, where it equals the
\* Threshold risk.
HormesisPiecewise ==
    /\ Len(hormesis_risk) = Len(dose_values)
    /\ \A i \in Samples :
          /\ dose_values[i] < Whole(10)
               => 1000 * hormesis_risk[i] = 50 * Den - 5 * dose_values[i]
          /\ dose_values[i] >= Whole(10)
               => /\ 100 * hormesis_risk[i] = dose_values[i] - Whole(10)
                  /\ hormesis_risk[i] = threshold_risk[i]

\* both pieces are sampled: 0.05 at dose 0, and the Threshold risk at 100
HormesisPiecewiseWitness ==
    /\ dose_values[1] = 0
    /\ 20 * hormesis_risk[1] = Whole(1)
    /\ 10 * hormesis_risk[NumSamples] = Whole(9)
    /\ hormesis_risk[NumSamples] = threshold_risk[NumSamples]

CoefficientsMatchTable ==
    /\ FlightCoef = radiation_sources["Flight (NYC to LA)"]
    /\ XrayCoef = radiation_sources["Chest X-ray"]
    /\ call # None =>
          Hundredths(Amount(output)) * (Micro \div 100)
            = call.flights * radiation_sources["Flight (NYC to LA)"]
              + call.xrays * radiation_sources["Chest X-ray"]

\* a dose with both terms has been reported
CoefficientsMatchTableWitness ==
    /\ call # None
    /\ call.flights = 7
    /\ call.xrays = 3
    /\ Hundredths(Amount(output)) = 58

=============================================================================
